---- MODULE Spec2Model ----
(***************************************************************************)
(* Model of sh2_save_editor.py: the SH2SaveEditor class (load, save, the   *)
(* field lookups and the typed reads and writes) and main()'s session.     *)
(* Bytes are integers 0..255, byte strings are sequences, indices in the   *)
(* operators are Python's 0-based indices.                                 *)
(***************************************************************************)
EXTENDS Integers, Sequences, FiniteSets, TLC

\* ---------------------------------------------------------------------
\* Python byte-string primitives
\* ---------------------------------------------------------------------

Min(a, b) == IF a < b THEN a ELSE b

Max(a, b) == IF a > b THEN a ELSE b

\* Python's normalisation of one slice bound against a length n.
PyIndex(k, n) == IF k < 0 THEN Max(k + n, 0) ELSE Min(k, n)

\* s[a:b]
PySlice(s, a, b) ==
    LET lo == PyIndex(a, Len(s))
        hi == PyIndex(b, Len(s))
    IN  IF hi <= lo THEN << >> ELSE SubSeq(s, lo + 1, hi)

\* The 0-based indices of s that s[a:b] covers.
PySliceIndices(s, a, b) ==
    LET lo == PyIndex(a, Len(s))
        hi == PyIndex(b, Len(s))
    IN  {k \in 0..(Len(s) - 1) : lo <= k /\ k < hi}

\* bytearray slice assignment s[a:b] = x
PySliceAssign(s, a, b, x) ==
    LET lo == PyIndex(a, Len(s))
        hi == Max(PyIndex(b, Len(s)), lo)
    IN  SubSeq(s, 1, lo) \o x \o SubSeq(s, hi + 1, Len(s))

\* the least element of a non-empty set of integers
Least(S) == CHOOSE k \in S : \A j \in S : k <= j

\* the lowest index in first..last at which sub occurs in s, or -1
FindFrom(s, sub, first, last) ==
    LET hits == {k \in first..last : SubSeq(s, k + 1, k + Len(sub)) = sub}
    IN  IF hits = {} THEN -1 ELSE Least(hits)

\* s.find(sub, start, end)
PyFind(s, sub, start, end) ==
    LET lo == PyIndex(start, Len(s))
        hi == PyIndex(end, Len(s))
    IN  FindFrom(s, sub, lo, hi - Len(sub))

\* s.find(sub)
PyFind1(s, sub) == PyFind(s, sub, 0, Len(s))

Pad(n, b) == [k \in 1..n |-> b]

\* ---------------------------------------------------------------------
\* struct.pack / struct.unpack
\* A Python int is [hi, lo] with value hi * 65536 + lo, lo in 0..65535,
\* hi unbounded.  A Python float (IEEE-754 double) is [sign, exp, mhi, mlo]:
\* exp the 11-bit biased exponent, the 52-bit fraction mhi * 2^26 + mlo.
\* ---------------------------------------------------------------------

StructError == "struct.error"

OverflowError == "OverflowError"

ZlibError == "zlib.error"

PyInt(n) == [hi |-> n \div 65536, lo |-> n % 65536]

RECURSIVE Pow2(_)
Pow2(n) == IF n = 0 THEN 1 ELSE 2 * Pow2(n - 1)

\* struct.pack('<I', n) for 0 <= n < 2^31
pack_I(n) == << n % 256, (n \div 256) % 256, (n \div 65536) % 256, n \div 16777216 >>

\* struct.unpack('<I', b)[0]: raises unless b has 4 bytes.  The value is
\* kept as the Python int [hi, lo].
unpack_I(b) ==
    IF Len(b) # 4 THEN [raise |-> StructError]
    ELSE [raise |-> "", value |-> [hi |-> b[3] + 256 * b[4], lo |-> b[1] + 256 * b[2]]]

\* struct.pack('<i', v): raises outside -2^31 .. 2^31-1
pack_i(v) ==
    IF v.hi < -32768 \/ v.hi > 32767 THEN [raise |-> StructError]
    ELSE LET h == v.hi % 65536
         IN  [raise |-> "",
              bytes |-> << v.lo % 256, v.lo \div 256, h % 256, h \div 256 >>]

\* struct.unpack('<i', b)[0]
unpack_i(b) ==
    IF Len(b) # 4 THEN [raise |-> StructError]
    ELSE LET h == b[3] + 256 * b[4]
         IN  [raise |-> "",
              value |-> [hi |-> IF h >= 32768 THEN h - 65536 ELSE h,
                         lo |-> b[1] + 256 * b[2]]]

\* The float32 fields [e8, m23] nearest to a finite double (round to nearest,
\* ties to even), e8 = 255 when the result is infinite.
RoundToSingle(v) ==
    IF v.exp = 0 THEN [e8 |-> 0, m23 |-> 0]     \* zero and double subnormals
    ELSE
    LET e     == v.exp - 1023
        shift == IF e < -126 THEN -126 - e ELSE 0
        d     == 3 + shift                       \* bits dropped from H
        H     == 67108864 + v.mhi                \* top 27 bits of the significand
        kept  == IF d > 27 THEN 0 ELSE H \div Pow2(d)
        rh    == IF d > 27 THEN H ELSE H % Pow2(d)
        half  == IF d > 28 THEN 2 * H ELSE Pow2(d - 1)
        up    == \/ rh > half
                 \/ rh = half /\ v.mlo > 0
                 \/ rh = half /\ v.mlo = 0 /\ kept % 2 = 1
        e0    == IF shift > 0 THEN 0 ELSE e + 127
        m0    == IF shift > 0 THEN kept ELSE kept - 8388608
        m1    == m0 + (IF up THEN 1 ELSE 0)
    IN  IF e > 127 THEN [e8 |-> 255, m23 |-> 0]
        ELSE IF m1 = 8388608 THEN [e8 |-> e0 + 1, m23 |-> 0]
        ELSE [e8 |-> e0, m23 |-> m1]

\* struct.pack('<f', v): raises OverflowError when a finite double rounds to
\* an infinite float32.
pack_f(v) ==
    LET r == IF v.exp = 2047
             THEN [e8 |-> 255, m23 |-> IF v.mhi = 0 /\ v.mlo = 0 THEN 0 ELSE 4194304]
             ELSE RoundToSingle(v)
    IN  IF v.exp # 2047 /\ r.e8 >= 255 THEN [raise |-> OverflowError]
        ELSE [raise |-> "",
              bytes |-> << r.m23 % 256, (r.m23 \div 256) % 256,
                           (r.m23 \div 65536) + 128 * (r.e8 % 2),
                           128 * v.sign + r.e8 \div 2 >>]

RECURSIVE Normalise(_, _)
\* A float32 subnormal m * 2^-149 as a double: shift the leading 1 out.
Normalise(m, e) ==
    IF m >= 8388608 THEN [exp |-> e, m23 |-> m - 8388608]
    ELSE Normalise(2 * m, e - 1)

\* struct.unpack('<f', b)[0]: the float32 widened to a double, exactly.
unpack_f(b) ==
    IF Len(b) # 4 THEN [raise |-> StructError]
    ELSE LET sign == b[4] \div 128
             e8   == 2 * (b[4] % 128) + b[3] \div 128
             m23  == (b[3] % 128) * 65536 + b[2] * 256 + b[1]
             n    == Normalise(m23, 897)
         IN  [raise |-> "",
              value |->
                IF e8 = 255 THEN [sign |-> sign, exp |-> 2047, mhi |-> m23 * 8, mlo |-> 0]
                ELSE IF e8 = 0 /\ m23 = 0 THEN [sign |-> sign, exp |-> 0, mhi |-> 0, mlo |-> 0]
                ELSE IF e8 = 0 THEN [sign |-> sign, exp |-> n.exp, mhi |-> n.m23 * 8, mlo |-> 0]
                ELSE [sign |-> sign, exp |-> e8 + 896, mhi |-> m23 * 8, mlo |-> 0]]

\* ---------------------------------------------------------------------
\* zlib.  The stream container is zlib's (two header bytes, body, Adler-32
\* trailer, bytes after the trailer ignored); the body is an abstraction of
\* DEFLATE: (count, byte) runs closed by the pair (0, 0).
\* ---------------------------------------------------------------------

RECURSIVE AdlerAB(_, _, _)
\* Adler-32's two sums over p[lo..hi], b counted from an a of 0
AdlerAB(p, lo, hi) ==
    IF lo > hi THEN << 0, 0 >>
    ELSE IF lo = hi THEN << p[lo] % 65521, p[lo] % 65521 >>
    ELSE LET mid == (lo + hi) \div 2
             l   == AdlerAB(p, lo, mid)
             r   == AdlerAB(p, mid + 1, hi)
         IN  << (l[1] + r[1]) % 65521,
                (l[2] + r[2] + (((hi - mid) * l[1]) % 65521)) % 65521 >>

\* zlib's Adler-32 trailer, big-endian (a starts at 1, b at 0)
Adler32(p) ==
    LET ab == AdlerAB(p, 1, Len(p))
        a  == (1 + ab[1]) % 65521
        b  == (Len(p) + ab[2]) % 65521
    IN  << b \div 256, b % 256, a \div 256, a % 256 >>

\* the pairs for one run of n bytes b, at most cap bytes to a pair
RunPairs(n, b, cap) ==
    LET q == (n + cap - 1) \div cap
    IN  [x \in 1..(2 * q) |->
            IF x % 2 = 0 THEN b
            ELSE IF x = 2 * q - 1 THEN n - cap * (q - 1)
            ELSE cap]

RECURSIVE JoinRuns(_, _, _, _, _)
\* the pairs for the runs number lo..hi of p, the runs starting at starts[..]
JoinRuns(p, starts, cap, lo, hi) ==
    IF lo > hi THEN << >>
    ELSE IF lo = hi
    THEN LET stop == IF lo = Len(starts) THEN Len(p) + 1 ELSE starts[lo + 1]
         IN  RunPairs(stop - starts[lo], p[starts[lo]], cap)
    ELSE LET mid == (lo + hi) \div 2
         IN  JoinRuns(p, starts, cap, lo, mid) \o JoinRuns(p, starts, cap, mid + 1, hi)

\* the body for p: (count, byte) pairs run by run, then the pair (0, 0)
Deflate(p, cap) ==
    LET IsStart(k) == k = 1 \/ p[k] # p[k - 1]
        starts == SelectSeq([k \in 1..Len(p) |-> k], IsStart)
    IN  JoinRuns(p, starts, cap, 1, Len(starts)) \o << 0, 0 >>

\* zlib.compress(p, level=9): header 78 DA, longest runs
zlib_compress(p) == << 120, 218 >> \o Deflate(p, 255) \o Adler32(p)

\* a stream of another encoder for the same payload: header 78 9C, runs of
\* at most cap bytes
zlib_compress_default(p, cap) == << 120, 156 >> \o Deflate(p, cap) \o Adler32(p)

RECURSIVE Expand(_, _, _)
\* the bytes of the pairs number lo..hi of the body that starts at c[3]
Expand(c, lo, hi) ==
    IF lo > hi THEN << >>
    ELSE IF lo = hi THEN Pad(c[2 * lo + 1], c[2 * lo + 2])
    ELSE LET mid == (lo + hi) \div 2
         IN  Expand(c, lo, mid) \o Expand(c, mid + 1, hi)

\* parse the body of c; ok = FALSE when it is truncated or badly closed
Inflate(c) ==
    LET pairs == 1..((Len(c) - 2) \div 2)
        ends  == {j \in pairs : c[2 * j + 1] = 0}
        last  == Least(ends)
    IN  IF ends = {} THEN [ok |-> FALSE]
        ELSE [ok |-> c[2 * last + 2] = 0,
              out |-> Expand(c, 1, last - 1),
              next |-> 2 * last + 3]

\* zlib.decompress(c): raises zlib.error on a bad header, a truncated or
\* malformed body, or a trailer that does not match
zlib_decompress(c) ==
    IF \/ Len(c) < 2
       \/ c[1] % 16 # 8
       \/ c[1] \div 16 > 7
       \/ (c[1] * 256 + c[2]) % 31 # 0
       \/ (c[2] \div 32) % 2 = 1
    THEN [raise |-> ZlibError]
    ELSE LET r == Inflate(c)
         IN  IF ~r.ok THEN [raise |-> ZlibError]
             ELSE IF PySlice(c, r.next - 1, r.next + 3) # Adler32(r.out)
                  THEN [raise |-> ZlibError]
             ELSE [raise |-> "", value |-> r.out]

\* ---------------------------------------------------------------------
\* SH2SaveEditor.load
\* ---------------------------------------------------------------------

ScanLimit == 300

SizeInfoLen == 8

Signatures == { << 120, 156 >>, << 120, 218 >> }

\* mutant: the loop stops one offset early, "for i in range(0, 299)"
ScanSignature_short(data) ==
    LET hits == {i \in 0..(ScanLimit - 2) : PySlice(data, i, i + 2) \in Signatures}
    IN  IF hits = {} THEN -1 ELSE Least(hits)

\* the loop "for i in range(0, 300)": the i at which the loop body first
\* runs its if-branch, -1 when the loop falls through
ScanSignature(data) ==
    LET hits == {i \in 0..(ScanLimit - 1) : PySlice(data, i, i + 2) \in Signatures}
    IN  IF hits = {} THEN -1 ELSE Least(hits)

NoSaveData == [loaded |-> FALSE]

\* load() on the file bytes data.  ret: "True", "False" or the exception
\* raised; size_reads the file indices the two size fields were read from;
\* inflated whether zlib.decompress was called.
load(data) ==
    LET i   == ScanSignature(data)
        cso == i - SizeInfoLen
        cs  == unpack_I(PySlice(data, cso, cso + 4))
        us  == unpack_I(PySlice(data, cso + 4, cso + 8))
        \* a slice bound past the end of the file is clamped to the end
        csn == IF cs.value.hi >= 16384 THEN Len(data)
               ELSE cs.value.hi * 65536 + cs.value.lo
        z   == zlib_decompress(PySlice(data, i, i + csn))
        rd1 == PySliceIndices(data, cso, cso + 4)
        rd2 == PySliceIndices(data, cso + 4, cso + 8)
    IN  IF i = -1
        THEN [ret |-> "False", save_data |-> NoSaveData, decompressed |-> << >>,
              size_reads |-> {}, inflated |-> FALSE]
        ELSE IF cs.raise # ""
        THEN [ret |-> cs.raise, save_data |-> NoSaveData, decompressed |-> << >>,
              size_reads |-> rd1, inflated |-> FALSE]
        ELSE IF us.raise # ""
        THEN [ret |-> us.raise, save_data |-> NoSaveData, decompressed |-> << >>,
              size_reads |-> rd1 \cup rd2, inflated |-> FALSE]
        ELSE IF z.raise # ""
        THEN [ret |-> z.raise, save_data |-> NoSaveData, decompressed |-> << >>,
              size_reads |-> rd1 \cup rd2, inflated |-> TRUE]
        ELSE [ret |-> "True",
              save_data |-> [loaded |-> TRUE,
                             header |-> PySlice(data, 0, cso),
                             size_info_offset |-> cso,
                             compression_offset |-> i,
                             decompressed |-> z.value,
                             uncompressed_size |-> us.value,
                             compressed_size |-> cs.value],
              decompressed |-> z.value,
              size_reads |-> rd1 \cup rd2, inflated |-> TRUE]

\* ---------------------------------------------------------------------
\* SH2SaveEditor.save
\* ---------------------------------------------------------------------

\* mutant: the uncompressed size written is the one the input file declared
save_stale(save_data, decompressed) ==
    LET compressed == zlib_compress(decompressed)
        old == save_data.uncompressed_size
    IN  save_data.header \o pack_I(Len(compressed))
            \o pack_I(old.hi * 65536 + old.lo) \o compressed

\* the bytes save() writes
save(save_data, decompressed) ==
    LET compressed == zlib_compress(decompressed)
        new_uncompressed_size == Len(decompressed)
        new_compressed_size == Len(compressed)
    IN  save_data.header \o pack_I(new_compressed_size)
            \o pack_I(new_uncompressed_size) \o compressed

\* ---------------------------------------------------------------------
\* Field lookups
\* ---------------------------------------------------------------------

\* str.encode() of the names main() and display_info() use
encode ==
    [ HealthValue   |-> << 72, 101, 97, 108, 116, 104, 86, 97, 108, 117, 101 >>,
      Pistol        |-> << 80, 105, 115, 116, 111, 108 >>,
      Shotgun       |-> << 83, 104, 111, 116, 103, 117, 110 >>,
      Rifle         |-> << 82, 105, 102, 108, 101 >>,
      Handgun       |-> << 72, 97, 110, 100, 103, 117, 110 >>,
      SteelPipe     |-> << 83, 116, 101, 101, 108, 80, 105, 112, 101 >>,
      HealthDrink   |-> << 72, 101, 97, 108, 116, 104, 68, 114, 105, 110, 107 >>,
      Syringe       |-> << 83, 121, 114, 105, 110, 103, 101 >>,
      HandgunAmmo   |-> << 72, 97, 110, 100, 103, 117, 110, 65, 109, 109, 111 >>,
      ShotgunAmmo   |-> << 83, 104, 111, 116, 103, 117, 110, 65, 109, 109, 111 >>,
      ShotgunShells |-> << 83, 104, 111, 116, 103, 117, 110, 83, 104, 101, 108, 108, 115 >>,
      RifleAmmo     |-> << 82, 105, 102, 108, 101, 65, 109, 109, 111 >>,
      FirstAidKit   |-> << 70, 105, 114, 115, 116, 65, 105, 100, 75, 105, 116 >> ]

\* name.encode() + b'\x00'
NameToken(name) == encode[name] \o << 0 >>

FloatPropertyToken == << 70, 108, 111, 97, 116, 80, 114, 111, 112, 101, 114, 116, 121, 0 >>

IntPropertyToken == << 73, 110, 116, 80, 114, 111, 112, 101, 114, 116, 121, 0 >>

QuantityToken == << 81, 117, 97, 110, 116, 105, 116, 121, 0 >>

PropSizeLen == 4

PropMetaLen == 8

QuantityWindow == 100

QuantitySkip == 34

_find_property_offset(decompressed, property_name, data_type) ==
    LET pos == PyFind1(decompressed, NameToken(property_name))
        type_name == IF data_type = "float" THEN FloatPropertyToken ELSE IntPropertyToken
    IN  IF pos = -1 THEN -1
        ELSE pos + Len(encode[property_name]) + 1 + Len(type_name) + PropSizeLen + PropMetaLen

\* mutant: the "pos == -1" test is missing
_find_weapon_offset_unchecked(decompressed, weapon_name) ==
    PyFind1(decompressed, NameToken(weapon_name)) + Len(encode[weapon_name]) + 1

_find_weapon_offset(decompressed, weapon_name) ==
    LET pos == PyFind1(decompressed, NameToken(weapon_name))
    IN  IF pos = -1 THEN -1
        ELSE pos + Len(encode[weapon_name]) + 1

_find_item_quantity_offset(decompressed, item_name) ==
    LET pos == PyFind1(decompressed, NameToken(item_name))
        qty_pos == PyFind(decompressed, QuantityToken, pos, pos + QuantityWindow)
    IN  IF pos = -1 THEN -1
        ELSE IF qty_pos = -1 THEN -1
        ELSE qty_pos + QuantitySkip

\* ---------------------------------------------------------------------
\* Reads.  Result: [kind |-> "None"], [kind |-> "value", value |-> v] or
\* [kind |-> "raise", exc |-> e]
\* ---------------------------------------------------------------------

None == [kind |-> "None"]

Decoded(u) ==
    IF u.raise # "" THEN [kind |-> "raise", exc |-> u.raise]
    ELSE [kind |-> "value", value |-> u.value]

get_health(decompressed) ==
    LET offset == _find_property_offset(decompressed, "HealthValue", "float")
    IN  IF offset > 0
        THEN Decoded(unpack_f(PySlice(decompressed, offset, offset + 4)))
        ELSE None

get_weapon_ammo(decompressed, weapon_name) ==
    LET offset == _find_weapon_offset(decompressed, weapon_name)
    IN  IF offset > 0
        THEN Decoded(unpack_i(PySlice(decompressed, offset, offset + 4)))
        ELSE None

get_item_quantity(decompressed, item_name) ==
    LET offset == _find_item_quantity_offset(decompressed, item_name)
    IN  IF offset > 0 /\ offset + 4 <= Len(decompressed)
        THEN Decoded(unpack_i(PySlice(decompressed, offset, offset + 4)))
        ELSE None

\* ---------------------------------------------------------------------
\* Writes.  Result: ret "True", "False" or the exception raised, and the
\* buffer afterwards (the right-hand side is packed before the slice is
\* assigned, so a raise leaves the buffer alone).
\* ---------------------------------------------------------------------

\* mutant: the slice assigned starts one byte early
Written_early(decompressed, offset, packed) ==
    IF packed.raise # "" THEN [ret |-> packed.raise, decompressed |-> decompressed]
    ELSE [ret |-> "True",
          decompressed |-> PySliceAssign(decompressed, offset - 1, offset + 3, packed.bytes)]

Written(decompressed, offset, packed) ==
    IF packed.raise # "" THEN [ret |-> packed.raise, decompressed |-> decompressed]
    ELSE [ret |-> "True",
          decompressed |-> PySliceAssign(decompressed, offset, offset + 4, packed.bytes)]

set_health(decompressed, value) ==
    LET offset == _find_property_offset(decompressed, "HealthValue", "float")
    IN  IF offset > 0
        THEN Written(decompressed, offset, pack_f(value))
        ELSE [ret |-> "False", decompressed |-> decompressed]

set_weapon_ammo(decompressed, weapon_name, amount) ==
    LET offset == _find_weapon_offset(decompressed, weapon_name)
    IN  IF offset > 0
        THEN Written(decompressed, offset, pack_i(amount))
        ELSE [ret |-> "False", decompressed |-> decompressed]

set_item_quantity(decompressed, item_name, amount) ==
    LET offset == _find_item_quantity_offset(decompressed, item_name)
    IN  IF offset > 0 /\ offset + 4 <= Len(decompressed)
        THEN Written(decompressed, offset, pack_i(amount))
        ELSE [ret |-> "False", decompressed |-> decompressed]

\* ---------------------------------------------------------------------
\* Inputs: save files and command lines
\* ---------------------------------------------------------------------

MaxCut == 5

MaxMods == 2

\* little-endian float32 75.0 and int32 12 and 3
F75 == << 0, 0, 150, 66 >>

I12 == << 12, 0, 0, 0 >>

I3 == << 3, 0, 0, 0 >>

\* a typed scalar property: name, type name, 4-byte size, 8-byte metadata, value
HealthEntry(v4) ==
    NameToken("HealthValue") \o FloatPropertyToken \o << 4, 0, 0, 0 >> \o Pad(8, 0) \o v4

\* a weapon: name, value
WeaponEntry(name, v4) == NameToken(name) \o v4

\* an item: name, gap bytes, "Quantity", 25 bytes, value
ItemEntry(name, gap, v4) ==
    NameToken(name) \o Pad(gap, 7) \o QuantityToken \o Pad(QuantitySkip - 9, 9) \o v4

\* drop the last t bytes
Cut(p, t) == SubSeq(p, 1, Len(p) - t)

ItemLast == << 1, 2 >> \o HealthEntry(F75) \o WeaponEntry("Pistol", I12)
                \o ItemEntry("HealthDrink", 3, I3)

WeaponLast == ItemEntry("HealthDrink", 3, I3) \o HealthEntry(F75)
                \o WeaponEntry("Pistol", I12)

HealthLast == WeaponEntry("Pistol", I12) \o ItemEntry("HealthDrink", 3, I3)
                \o HealthEntry(F75)

\* the health value's 4 bytes are the end of a weapon's name token
HealthOverWeapon == NameToken("HealthValue") \o Pad(23, 5) \o WeaponEntry("Pistol", I12)
                        \o << 6, 6 >>

\* two items in front of one Quantity token
SharedQuantity == NameToken("HealthDrink") \o NameToken("Syringe") \o QuantityToken
                        \o Pad(QuantitySkip - 9, 9) \o I3 \o WeaponEntry("Pistol", I12)

\* the weapon's value is followed by the tail of another weapon's token
TokenTail == WeaponEntry("Pistol", I12) \o << 103, 117, 110, 0 >> \o I3
                \o WeaponEntry("Shotgun", << 5, 0, 0, 0 >>)

\* an item's value window ends where the payload ends, a weapon token inside it
ItemOverWeapon == NameToken("HealthDrink") \o QuantityToken \o Pad(QuantitySkip - 9 - 5, 9)
                        \o NameToken("Pistol")

\* the Quantity token just inside, and just outside, the 100-byte window
WindowIn == ItemEntry("Syringe", QuantityWindow - 8 - 9, I3)

WindowOut == ItemEntry("Syringe", QuantityWindow - 8 - 9 + 1, I3)

\* names without their zero byte, and no supported name at all
NoTokens == encode["Pistol"] \o << 1 >> \o encode["HealthValue"] \o << 2 >>
                \o encode["HealthDrink"] \o QuantityToken \o Pad(30, 3)

\* 74 runs: the stream save() builds for it is 156 bytes long
ManyRuns == WeaponEntry("Pistol", I12) \o [k \in 1..65 |-> 32 + (k % 2)]

Payloads ==
    {Cut(p, t) : p \in {ItemLast, WeaponLast, HealthLast}, t \in 0..MaxCut}
        \cup {HealthOverWeapon, SharedQuantity, TokenTail, ItemOverWeapon,
              WindowIn, WindowOut, NoTokens}

\* [header][compressed size][uncompressed size][stream][trailing bytes]
Container(header, stream, declared, trailing) ==
    header \o pack_I(Len(stream)) \o pack_I(declared) \o stream \o trailing

HeaderLen == 12

Header == Pad(HeaderLen, 72)

ValidFiles ==
    {Container(Header, zlib_compress_default(p, 2), Len(p), << >>) : p \in Payloads}

Stream0 == zlib_compress_default(WeaponLast, 2)

SpecialFiles ==
    {   \* the spec's 89-byte header, a best-compression stream, trailing bytes
        Container(Pad(89, 72), zlib_compress(ItemLast), Len(ItemLast), << 1, 2, 3 >>),
        \* a declared uncompressed size that is not the payload's length
        Container(Header, Stream0, 500, << >>),
        \* the header ends in 78
        Container(Pad(HeaderLen, 72) \o << 120 >>, zlib_compress_default(ManyRuns, 1),
                  Len(ManyRuns), << >>),
        \* the signature at offsets 299 and 300
        Container(Pad(ScanLimit - 1 - SizeInfoLen, 0), Stream0, Len(WeaponLast), << >>),
        Container(Pad(ScanLimit - SizeInfoLen, 0), Stream0, Len(WeaponLast), << >>),
        \* a declared compressed size that cuts the stream short
        Header \o pack_I(Len(Stream0) - 3) \o pack_I(Len(WeaponLast)) \o Stream0,
        \* a signature pair in front of the real container
        Container(<< 0, 0, 0, 0, 9, 0, 0, 0, 0, 0, 0, 0, 120, 156, 1, 2 >>, Stream0,
                  Len(WeaponLast), << >>),
        \* no signature, and the empty file
        Pad(40, 0),
        << >>,
        << 120 >>,
        << 120, 156 >> }
    \* a signature less than 8 bytes into the file
    \cup {Pad(n, 0) \o Stream0 : n \in {0, 3, 4, SizeInfoLen - 1}}

Files == ValidFiles \cup SpecialFiles

\* Python values
V100 == [sign |-> 0, exp |-> 1029, mhi |-> 37748736, mlo |-> 0]          \* 100.0

VTenth == [sign |-> 0, exp |-> 1019, mhi |-> 40265318, mlo |-> 26843546] \* 0.1

VHuge == [sign |-> 0, exp |-> 1152, mhi |-> 31498749, mlo |-> 10242589]  \* 1e39

N999 == [hi |-> 0, lo |-> 999]

NShot == [hi |-> 29807, lo |-> 26707]     \* 0x746F6853, the bytes "Shot"

N2p31 == [hi |-> 32768, lo |-> 0]         \* 2147483648

\* the (mod_type, value) pairs main() appends, in command-line order
ModOrder ==
    << [kind |-> "item", name |-> "Syringe", value |-> N2p31],
       [kind |-> "weapon", name |-> "Shotgun", value |-> N2p31],
       [kind |-> "health", name |-> "HealthValue", value |-> VHuge],
       [kind |-> "health", name |-> "HealthValue", value |-> VTenth],
       [kind |-> "health", name |-> "HealthValue", value |-> V100],
       [kind |-> "weapon", name |-> "Pistol", value |-> NShot],
       [kind |-> "weapon", name |-> "Pistol", value |-> N999],
       [kind |-> "item", name |-> "HealthDrink", value |-> N999] >>

\* up to MaxMods of them, each option given at most once
ModLists ==
    LET picks == UNION {[1..n -> 1..Len(ModOrder)] : n \in 0..MaxMods}
        rising == {s \in picks : \A j, k \in DOMAIN s : j < k => s[j] < s[k]}
    IN  {[k \in DOMAIN s |-> ModOrder[s[k]]] : s \in rising}

\* the parsed command line: --info, or the modification list
Args == {[info |-> TRUE, mods |-> << >>]} \cup {[info |-> FALSE, mods |-> m] : m \in ModLists}

\* ---------------------------------------------------------------------
\* main(): one session
\* ---------------------------------------------------------------------

VARIABLES
    pc,            \* "start", "loaded", "notfound", "crashed", "info", "nomods",
                   \* "saved", "reloaded"
    data,          \* the bytes of the save file
    argv,          \* the parsed command line
    save_data,     \* editor.save_data
    decompressed,  \* editor.decompressed
    size_reads,    \* file indices load() read the size fields from
    inflations,    \* calls of zlib.decompress
    idx,           \* modifications attempted
    outcomes,      \* what each attempt returned
    exc,           \* the exception that ended the session, "" if none
    written,       \* the bytes save() wrote
    saves,         \* calls of save()
    shown,         \* the lines display_info() printed
    reloaded       \* load() of a second session on the written file

vars == << pc, data, argv, save_data, decompressed, size_reads, inflations, idx,
           outcomes, exc, written, saves, shown, reloaded >>

NotReloaded == [ret |-> ""]

Init ==
    /\ pc = "start"
    /\ data \in Files
    /\ argv \in Args
    /\ save_data = NoSaveData
    /\ decompressed = << >>
    /\ size_reads = {}
    /\ inflations = 0
    /\ idx = 0
    /\ outcomes = << >>
    /\ exc = ""
    /\ written = << >>
    /\ saves = 0
    /\ shown = << >>
    /\ reloaded = NotReloaded

\* editor.load() and main()'s exit when it returns False
Load ==
    /\ pc = "start"
    /\ LET r == load(data)
       IN  /\ save_data' = r.save_data
           /\ decompressed' = r.decompressed
           /\ size_reads' = r.size_reads
           /\ inflations' = inflations + (IF r.inflated THEN 1 ELSE 0)
           /\ pc' = IF r.ret = "True" THEN "loaded"
                    ELSE IF r.ret = "False" THEN "notfound" ELSE "crashed"
           /\ exc' = IF r.ret \in {"True", "False"} THEN "" ELSE r.ret
    /\ UNCHANGED << data, argv, idx, outcomes, written, saves, shown, reloaded >>

Weapons == << "Pistol", "Shotgun", "Rifle", "Handgun", "SteelPipe" >>

InventoryItems == << "HealthDrink", "Syringe", "HandgunAmmo", "ShotgunAmmo",
                     "ShotgunShells", "RifleAmmo", "FirstAidKit" >>

\* the reads display_info() makes, in order
InfoReads(buf) ==
    << [name |-> "HealthValue", r |-> get_health(buf)] >>
        \o [k \in 1..Len(Weapons) |->
                [name |-> Weapons[k], r |-> get_weapon_ammo(buf, Weapons[k])]]
        \o [k \in 1..Len(InventoryItems) |->
                [name |-> InventoryItems[k], r |-> get_item_quantity(buf, InventoryItems[k])]]

\* display_info(): prints the values found up to the first read that raises
display_info(buf) ==
    LET reads  == InfoReads(buf)
        raises == {k \in 1..Len(reads) : reads[k].r.kind = "raise"}
        stop   == IF raises = {} THEN Len(reads) + 1 ELSE Least(raises)
        found  == {k \in 1..(stop - 1) : reads[k].r.kind = "value"}
        nth(i) == CHOOSE k \in found : Cardinality({j \in found : j <= k}) = i
    IN  [exc   |-> IF raises = {} THEN "" ELSE reads[stop].r.exc,
         lines |-> [i \in 1..Cardinality(found) |-> reads[nth(i)]]]

\* --info: display_info() then sys.exit(0)
DisplayInfo ==
    /\ pc = "loaded"
    /\ argv.info
    /\ LET r == display_info(decompressed)
       IN  /\ shown' = r.lines
           /\ exc' = r.exc
           /\ pc' = IF r.exc = "" THEN "info" ELSE "crashed"
    /\ UNCHANGED << data, argv, save_data, decompressed, size_reads, inflations, idx,
                    outcomes, written, saves, reloaded >>

\* "No modifications specified."
NoModifications ==
    /\ pc = "loaded"
    /\ ~argv.info
    /\ argv.mods = << >>
    /\ pc' = "nomods"
    /\ UNCHANGED << data, argv, save_data, decompressed, size_reads, inflations, idx,
                    outcomes, exc, written, saves, shown, reloaded >>

\* the modification the loop is at
Pending == pc = "loaded" /\ ~argv.info /\ idx < Len(argv.mods)

Cur == argv.mods[idx + 1]

\* one pass of the loop body with the result r of the setter it called
Applied(r) ==
    /\ decompressed' = r.decompressed
    /\ idx' = idx + 1
    /\ IF r.ret \in {"True", "False"}
       THEN /\ outcomes' = Append(outcomes, r.ret)
            /\ UNCHANGED << pc, exc >>
       ELSE /\ pc' = "crashed"
            /\ exc' = r.ret
            /\ UNCHANGED outcomes
    /\ UNCHANGED << data, argv, save_data, size_reads, inflations, written, saves,
                    shown, reloaded >>

ApplyHealth ==
    /\ Pending
    /\ Cur.kind = "health"
    /\ Applied(set_health(decompressed, Cur.value))

ApplyItem ==
    /\ Pending
    /\ Cur.kind = "item"
    /\ Applied(set_item_quantity(decompressed, Cur.name, Cur.value))

ApplyWeapon ==
    /\ Pending
    /\ Cur.kind = "weapon"
    /\ Applied(set_weapon_ammo(decompressed, Cur.name, Cur.value))

\* editor.save(output_file) after the loop
Save ==
    /\ pc = "loaded"
    /\ ~argv.info
    /\ argv.mods # << >>
    /\ idx = Len(argv.mods)
    /\ written' = save(save_data, decompressed)
    /\ saves' = saves + 1
    /\ pc' = "saved"
    /\ UNCHANGED << data, argv, save_data, decompressed, size_reads, inflations, idx,
                    outcomes, exc, shown, reloaded >>

\* a second session: editor.load() on the file the first one wrote
Reload ==
    /\ pc = "saved"
    /\ reloaded' = load(written)
    /\ pc' = "reloaded"
    /\ UNCHANGED << data, argv, save_data, decompressed, size_reads, inflations, idx,
                    outcomes, exc, written, saves, shown >>

Next ==
    \/ Load
    \/ DisplayInfo
    \/ NoModifications
    \/ ApplyHealth
    \/ ApplyItem
    \/ ApplyWeapon
    \/ Save
    \/ Reload

Spec == Init /\ [][Next]_vars

\* ---------------------------------------------------------------------
\* Vocabulary of the properties
\* ---------------------------------------------------------------------

HealthField == [kind |-> "health", name |-> "HealthValue"]

Fields ==
    {HealthField}
        \cup {[kind |-> "weapon", name |-> Weapons[k]] : k \in 1..Len(Weapons)}
        \cup {[kind |-> "item", name |-> InventoryItems[k]] : k \in 1..Len(InventoryItems)}

FieldOf(mod) == [kind |-> mod.kind, name |-> mod.name]

\* what the editor's lookup for a field returns
Offset(f, buf) ==
    IF f.kind = "health" THEN _find_property_offset(buf, f.name, "float")
    ELSE IF f.kind = "weapon" THEN _find_weapon_offset(buf, f.name)
    ELSE _find_item_quantity_offset(buf, f.name)

\* what the editor's read of a field returns
Read(f, buf) ==
    IF f.kind = "health" THEN get_health(buf)
    ELSE IF f.kind = "weapon" THEN get_weapon_ammo(buf, f.name)
    ELSE get_item_quantity(buf, f.name)

\* the name token of f occurs nowhere in buf
TokenAbsent(f, buf) ==
    LET tok == NameToken(f.name)
    IN  \A k \in 1..Len(buf) :
            \/ k + Len(tok) - 1 > Len(buf)
            \/ \E j \in 1..Len(tok) : buf[k + j - 1] # tok[j]

\* this step is one pass of main()'s loop: a write attempt on field Target
Attempt == pc = "loaded" /\ idx' = idx + 1

Target == FieldOf(Cur)

\* what the attempt of this step returned or raised
AttemptRet == IF pc' = "crashed" THEN exc' ELSE outcomes'[idx']

\* the loaded payload before any write
Original == save_data.decompressed

\* the first attempt of the session, seen from the state after it
FirstTarget == FieldOf(argv.mods[1])

AfterFirst == save_data.loaded /\ ~argv.info /\ idx = 1

\* the offsets 0..299 at which a signature pair starts in the file
SignatureOffsets(file) ==
    {i \in 0..(ScanLimit - 1) :
        /\ i + 2 <= Len(file)
        /\ file[i + 1] = 120
        /\ file[i + 2] \in {156, 218}}

\* the 4 bytes at 0-based offset k of file as a little-endian number
U32At(file, k) ==
    file[k + 1] + 256 * file[k + 2] + 65536 * file[k + 3] + 16777216 * file[k + 4]

\* ---------------------------------------------------------------------
\* Properties
\* ---------------------------------------------------------------------

\* C1 (as claimed): when a session saves the payload it loaded, unchanged, a
\* second load of the written file succeeds and yields that same payload.
C1_RoundTrip ==
    (pc = "reloaded" /\ decompressed = Original)
        => (reloaded.ret = "True" /\ reloaded.decompressed = Original)

\* C2 (as claimed): the payload buffer keeps the length it had after load,
\* whatever writes were attempted.
C2_LengthInvariant ==
    save_data.loaded => Len(decompressed) = Len(Original)

\* C3 (as claimed): a write attempt on field A leaves the read result of every
\* other field B what it was.
C3_NonInterference ==
    [][Attempt => \A b \in Fields \ {Target} :
                      Read(b, decompressed') = Read(b, decompressed)]_vars

\* C3 (amended): a write attempt on field A leaves the read result of every
\* other field B what it was, when B read as a value whose 4 bytes end at or
\* before A's offset.
C3_WritePreservesEarlierFields ==
    [][Attempt => \A b \in Fields \ {Target} :
            (/\ Read(b, decompressed).kind = "value"
             /\ Offset(b, decompressed) + 4 <= Offset(Target, decompressed))
                => Read(b, decompressed') = Read(b, decompressed)]_vars

\* C3 witness: a first write changed the payload while another field read as
\* a value whose 4 bytes ended at or before the written field's offset.
C3_Witness ==
    /\ AfterFirst
    /\ outcomes = << "True" >>
    /\ decompressed # Original
    /\ \E b \in Fields \ {FirstTarget} :
            /\ Read(b, Original).kind = "value"
            /\ Offset(b, Original) + 4 = Offset(FirstTarget, Original)

\* C4 (as claimed): after a write of V that reported success, the lookup gives
\* the same offset and the read returns V exactly.
C4_ReadAfterWrite ==
    [][(Attempt /\ AttemptRet = "True") =>
            /\ Offset(Target, decompressed') = Offset(Target, decompressed)
            /\ Read(Target, decompressed') = [kind |-> "value", value |-> Cur.value]]_vars

\* C5 (as claimed): when a field's offset plus 4 exceeds the payload length,
\* its read returns absent, a write attempt on it returns failure, and the
\* buffer is not touched.
C5_BoundsSafety ==
    [][(Attempt /\ Offset(Target, decompressed) + 4 > Len(decompressed)) =>
            /\ Read(Target, decompressed) = None
            /\ AttemptRet = "False"
            /\ decompressed' = decompressed]_vars

\* C6 (as claimed): once the file is loaded and modifications were requested,
\* every attempt made has a True/False outcome, the session is never ended by
\* an attempt, and save has run exactly once when the session is past its
\* last attempt.
C6_FailuresIsolated ==
    (save_data.loaded /\ ~argv.info) =>
        /\ pc # "crashed"
        /\ Len(outcomes) = idx
        /\ (pc \in {"saved", "reloaded"} => saves = 1 /\ idx = Len(argv.mods))

\* C7: for a field whose name token occurs nowhere in the payload the lookup
\* yields no offset and the read returns None, and a write attempt on it
\* returns False and leaves the payload as it was.
C7_Absence ==
    [][Attempt =>
            /\ \A f \in Fields : TokenAbsent(f, decompressed) =>
                    /\ Offset(f, decompressed) = -1
                    /\ Read(f, decompressed) = None
            /\ TokenAbsent(Target, decompressed) =>
                    /\ AttemptRet = "False"
                    /\ decompressed' = decompressed]_vars

\* C7 witness: the first attempt was on a field whose token the loaded payload
\* does not hold, and it returned False.
C7_Witness ==
    /\ AfterFirst
    /\ TokenAbsent(FirstTarget, Original)
    /\ outcomes = << "False" >>

\* C8: the written file is the input's bytes before its size-info block, then
\* the length of what follows the two size fields, then the current length of
\* the payload, then a stream that decompresses to the current payload.
C8_RebuildLayout ==
    pc \in {"saved", "reloaded"} =>
        LET h == Least(SignatureOffsets(data)) - SizeInfoLen
        IN  /\ Len(written) >= h + SizeInfoLen
            /\ SubSeq(written, 1, h) = SubSeq(data, 1, h)
            /\ U32At(written, h) = Len(written) - h - SizeInfoLen
            /\ U32At(written, h + 4) = Len(decompressed)
            /\ zlib_decompress(SubSeq(written, h + SizeInfoLen + 1, Len(written)))
                    = [raise |-> "", value |-> decompressed]

\* C8 witness: a file was written after a write changed the payload's length,
\* from an input whose declared sizes were both different from the new ones.
C8_Witness ==
    /\ pc = "saved"
    /\ Len(decompressed) # Len(Original)
    /\ save_data.uncompressed_size # PyInt(Len(decompressed))
    /\ save_data.compressed_size # PyInt(Len(written) - Len(save_data.header) - SizeInfoLen)

\* C9: load reports not-found exactly when no signature pair starts at an
\* offset in 0..299, and then nothing was decompressed and no payload is set;
\* otherwise it commits to the lowest such offset and decompresses once.
C9_ScanWindow ==
    pc # "start" =>
        LET sigs == SignatureOffsets(data)
        IN  /\ pc = "notfound" <=> sigs = {}
            /\ pc = "notfound" => (inflations = 0 /\ ~save_data.loaded /\ decompressed = << >>)
            /\ inflations <= 1
            /\ save_data.loaded => save_data.compression_offset = Least(sigs)
            /\ (sigs # {} /\ Least(sigs) >= SizeInfoLen) => inflations = 1

\* C9 witness: a file whose only signature starts at offset 299 was loaded.
C9_Witness ==
    /\ pc = "loaded"
    /\ SignatureOffsets(data) = {ScanLimit - 1}
    /\ save_data.compression_offset = ScanLimit - 1

\* C10 (as claimed): load ends in success with the bytes before offset i-8 as
\* header, in not-found, or in a decompression failure, and reads the size
\* fields only at file offsets i-8 .. i-1.
C10_OutcomesClosed ==
    pc # "start" =>
        LET sigs == SignatureOffsets(data)
            i    == Least(sigs)
        IN  /\ \/ pc = "notfound"
               \/ pc = "crashed" /\ exc = ZlibError
               \/ save_data.loaded /\ save_data.header = SubSeq(data, 1, i - SizeInfoLen)
            /\ sigs # {} => size_reads \subseteq (i - SizeInfoLen)..(i - 1)

====
